---- MODULE Spec2Model ----
(***************************************************************************)
(* Model of the stratified least-filled-bucket balancer                    *)
(* (packages/backend/core/randomization.py) and of the assign and submit  *)
(* endpoints that call it (packages/backend/main.py).                      *)
(*                                                                         *)
(* The relations of the schema are the shared state.  Every call is        *)
(* a process that runs the statements of the code one at a time, each in   *)
(* its own database transaction that ends with db.commit().  The storage   *)
(* engine is PostgreSQL at its default isolation (READ COMMITTED): a       *)
(* SELECT sees committed rows only, a write takes a lock on its row (or    *)
(* on its unique key) that is held until the transaction ends, and a       *)
(* statement that needs a locked row waits.                                *)
(***************************************************************************)
EXTENDS Integers, Sequences, FiniteSets

\* ------------------------------------------------------------------ bounds

\* Number of concurrent callers.
NumProcs == 3

\* Number of calls started in one behaviour.
MaxCalls == 3

Procs == 1..NumProcs

\* ------------------------------------------------------------------ inputs

\* Item types, in Python's string ordering ("persistent" < "storm" < "wind").
ItemOrder == <<"persistent", "storm", "wind">>

Items == {ItemOrder[i] : i \in 1..Len(ItemOrder)}

\* Participant identifiers a request may carry; "" is a missing p_uuid.
UuidInputs == {"", "u1", "u2"}

\* The participant identifier of the requests that run concurrently.
ConcurrentUuidInputs == {"u1"}

\* Strata a request may carry; "" is an empty or absent stratum.
StratumInputs == {"", "global", "novice"}

\* The strata of the requests that run concurrently.
ConcurrentStratumInputs == {"", "novice"}

\* Candidate lists a request may carry.
ApListInputs ==
    { <<>>,
      <<"storm">>,
      <<"wind", "storm">>,
      <<"storm", "wind", "persistent">> }

\* The candidate lists of the requests that run concurrently.
ConcurrentApListInputs == {ap_list \in ApListInputs : Len(ap_list) >= 2}

\* Pairs a record_response call may carry (lengths 1, 2 and 3).
PairInputs ==
    { <<"storm">>,
      <<"storm", "wind">>,
      <<"wind", "storm">>,
      <<"wind", "persistent">>,
      <<"persistent", "storm">>,
      <<"storm", "wind", "persistent">> }

\* The pairs of the record_response calls that run concurrently.
ConcurrentPairInputs == {pair \in PairInputs : Len(pair) = 2}

\* The participants, the stratum and the pool of the balancing rounds.
RoundUuids == <<"u1", "u2", "u3">>

RoundStratum == "novice"

RoundPool == <<"storm", "wind", "persistent">>

\* Strings of derive_experience_band's arguments, as sequences of
\* characters; None is Python's None.
None == <<"None">>

YearsInputs ==
    { None,
      <<>>,
      <<"0", "-", "1">>,
      <<" ", "0", "-", "1", " ">>,
      <<"2", "-", "5">>,
      <<"2", "-", "5", " ">>,
      <<"6", "+">>,
      <<" ", "6", "+">>,
      <<"1", "0">>,
      <<"0", " ", "-", " ", "1">> }

TrainingInputs ==
    { None,
      <<>>,
      <<"n", "o", "n", "e">>,
      <<"N", "o", "n", "e">>,
      <<"a", "w", "a", "r", "e", "n", "e", "s", "s">>,
      <<"l", "e", "v", "e", "l", "1">>,
      <<"L", "E", "V", "E", "L", "1", " ">>,
      <<"l", "e", "v", "e", "l", "2">>,
      <<" ", "L", "e", "v", "e", "l", "2">>,
      <<"l", "e", "v", "e", "l", "3">>,
      <<"p", "r", "o">> }

\* ----------------------------------------------------------------- helpers

\* Position of an identifier in the string ordering.
Rank(x) == CHOOSE i \in 1..Len(ItemOrder) : ItemOrder[i] = x

\* Python's min(a, b) and max(a, b) on identifiers.
Min(a, b) == IF Rank(b) < Rank(a) THEN b ELSE a

Max(a, b) == IF Rank(b) > Rank(a) THEN b ELSE a

\* Python's max and min on counts.
MaxInt(m, n) == IF n > m THEN n ELSE m

MinOfSet(S) == CHOOSE m \in S : \A n \in S : m <= n

\* A relation with no row.
EmptyTable == [k \in {} |-> 0]

\* "result[0] if result else 0": the count of a row, 0 when there is none.
CountOf(table, key) == IF key \in DOMAIN table THEN table[key] ELSE 0

\* The relation with the row of key set to value.
WithRow(table, key, value) ==
    [k \in DOMAIN table \cup {key} |-> IF k = key THEN value ELSE table[k]]

\* The relation with the rows of writes written over it (a commit).
Overwrite(table, writes) ==
    [k \in DOMAIN table \cup DOMAIN writes |->
        IF k \in DOMAIN writes THEN writes[k] ELSE table[k]]

\* Changed: the stratum is used as given.
StratumAsGiven(stratum) == stratum

\* "stratum or 'global'".
NormalizeStratum(stratum) == IF stratum = "" THEN "global" ELSE stratum

\* ------------------------------------------------- the allocation decision

\* Changed: the inner loop starts at i, so an item is paired with itself.
PairIndexesFromI(ap_list) ==
    {ij \in (1..Len(ap_list)) \X (1..Len(ap_list)) : ij[1] <= ij[2]}

\* "for i in range(len(ap_list)): for j in range(i + 1, len(ap_list))".
PairIndexes(ap_list) ==
    {ij \in (1..Len(ap_list)) \X (1..Len(ap_list)) : ij[1] < ij[2]}

\* "max_count = max(count_a, count_b)" for the pair at positions i and j.
PairScore(ap_list, counts, ij) ==
    MaxInt(counts[ap_list[ij[1]]], counts[ap_list[ij[2]]])

\* Changed: the score of the first pair is taken for the minimum.
ScoreOfFirstPair(ap_list, counts) == PairScore(ap_list, counts, <<1, 2>>)

\* "min_score = min(score for ... in pair_scores)".
MinScore(ap_list, counts) ==
    MinOfSet({PairScore(ap_list, counts, ij) : ij \in PairIndexes(ap_list)})

\* Changed: best_pairs keeps the pairs as selected, "(ap_a, ap_b)".
BestPairsAsSelected(ap_list, counts) ==
    { <<ap_list[ij[1]], ap_list[ij[2]]>> :
        ij \in {kl \in PairIndexes(ap_list) :
                    PairScore(ap_list, counts, kl) = MinScore(ap_list, counts)} }

\* Changed: only the first pair whose score is min_score is kept.
FirstBestPair(ap_list, counts) ==
    LET best == {kl \in PairIndexes(ap_list) :
                    PairScore(ap_list, counts, kl) = MinScore(ap_list, counts)}
        ij == CHOOSE kl \in best :
                  \A mn \in best : kl[1] < mn[1] \/ (kl[1] = mn[1] /\ kl[2] <= mn[2])
    IN  { <<Min(ap_list[ij[1]], ap_list[ij[2]]), Max(ap_list[ij[1]], ap_list[ij[2]])>> }

\* "best_pairs": the (min, max) forms of the pairs whose score is min_score.
BestPairs(ap_list, counts) ==
    { <<Min(ap_list[ij[1]], ap_list[ij[2]]), Max(ap_list[ij[1]], ap_list[ij[2]])>> :
        ij \in {kl \in PairIndexes(ap_list) :
                    PairScore(ap_list, counts, kl) = MinScore(ap_list, counts)} }

\* The JSON value stored in allocations.assignment and returned by assign.
Assignment(pair, stratum) == [pair |-> pair, stratum |-> stratum]

\* ------------------------------------------------------------------- state

VARIABLES
    allocations,     \* committed rows of <schema>.allocations
    ap_type_counts,  \* committed rows of <schema>.ap_type_counts: <<stratum, ap_type>> -> count
    pair_counts,     \* committed rows of <schema>.pair_counts: <<stratum, ap_a, ap_b>> -> count
    responses,       \* committed rows of <schema>.responses: <<uuid, pair>> of the payload -> number of rows
    pc,              \* the statement each caller is about to run
    req,             \* the arguments of the call each caller is in, or of its call that raised
    local,           \* assign_pair's locals: the counts read so far, the loop index, the assignment
    tx,              \* each caller's open transaction: the rows it wrote and has not committed
    raised,          \* the exception each caller's last call ended in, if it did
    returned,        \* history: <<uuid, stratum>> -> the pairs the completed assign calls returned
    firstCommitted,  \* history: <<uuid, stratum>> -> the assignment of the first INSERT committed
    recorded,        \* history: <<stratum, min, max>> -> the number of record_response calls committed
    atSubmit,        \* history: the tallies and responses when each caller's submission began
    calls,           \* history: the number of calls started
    years,           \* derive_experience_band: the years argument of the last call
    training,        \* derive_experience_band: the training argument of the last call
    band             \* derive_experience_band: what the last call returned

vars ==
    <<allocations, ap_type_counts, pair_counts, responses, pc, req, local, tx, raised,
      returned, firstCommitted, recorded, atSubmit, calls, years, training, band>>

db == <<allocations, ap_type_counts, pair_counts, responses>>

history == <<returned, firstCommitted, recorded, atSubmit>>

derivation == <<years, training, band>>

NoReq == [op |-> "none", uuid |-> "", stratum |-> "", ap_list |-> <<>>, pair |-> <<>>]

NoLocal == [ap_type_counts |-> EmptyTable, i |-> 0, assignment |-> Assignment(<<>>, "")]

NoTx == [allocations |-> {}, ap_type_counts |-> EmptyTable, pair_counts |-> EmptyTable]

NoError == "none"

NoSnapshot ==
    [pair_counts |-> EmptyTable, ap_type_counts |-> EmptyTable, responses |-> EmptyTable]

Init ==
    /\ allocations = {}
    /\ ap_type_counts = EmptyTable
    /\ pair_counts = EmptyTable
    /\ responses = EmptyTable
    /\ atSubmit = [p \in Procs |-> NoSnapshot]
    /\ pc = [p \in Procs |-> "idle"]
    /\ req = [p \in Procs |-> NoReq]
    /\ local = [p \in Procs |-> NoLocal]
    /\ tx = [p \in Procs |-> NoTx]
    /\ raised = [p \in Procs |-> NoError]
    /\ returned = EmptyTable
    /\ firstCommitted = EmptyTable
    /\ recorded = EmptyTable
    /\ calls = 0
    /\ years = None
    /\ training = None
    /\ band = ""

\* A caller that is not inside a call.
Free(p) == pc[p] \in {"idle", "raised"}

\* A call returns: its arguments, its locals and its transaction are gone.
Return(p) ==
    /\ pc' = [pc EXCEPT ![p] = "idle"]
    /\ req' = [req EXCEPT ![p] = NoReq]
    /\ raised' = [raised EXCEPT ![p] = NoError]
    /\ local' = [local EXCEPT ![p] = NoLocal]
    /\ tx' = [tx EXCEPT ![p] = NoTx]

\* A call ends in an exception: its locals are gone and its transaction is
\* not committed.
Raise(p, kind) ==
    /\ pc' = [pc EXCEPT ![p] = "raised"]
    /\ raised' = [raised EXCEPT ![p] = kind]
    /\ local' = [local EXCEPT ![p] = NoLocal]
    /\ tx' = [tx EXCEPT ![p] = NoTx]

\* The pairs returned for the keys stay on record.
PairsReturned(key) == IF key \in DOMAIN returned THEN returned[key] ELSE {}

NoteReturned(p, assignment) ==
    returned' = WithRow(returned, <<req[p].uuid, req[p].stratum>>,
                        PairsReturned(<<req[p].uuid, req[p].stratum>>)
                            \cup {assignment.pair})

\* ---------------------------------------------------- the storage engine

\* Another open transaction has written (and so locked) a row of this uuid.
AllocationLocked(p, uuid) ==
    \E q \in Procs \ {p} : \E row \in tx[q].allocations : row.uuid = uuid

\* Changed: a count is read and written back with no lock on its row.
ItemRowNeverLocked(p, key) == FALSE

\* Another open transaction has written (and so locked) the row of this key.
ItemRowLocked(p, key) ==
    \E q \in Procs \ {p} : key \in DOMAIN tx[q].ap_type_counts

PairRowLocked(p, key) ==
    \E q \in Procs \ {p} : key \in DOMAIN tx[q].pair_counts

\* "SELECT assignment FROM allocations WHERE uuid = %s AND stratum = %s".
SelectExisting(rows, uuid, stratum) ==
    {row \in rows : row.uuid = uuid /\ row.stratum = stratum}

\* Changed: the INSERT writes its row whatever rows there are.
InsertAllocationAlways(rows, uuid, stratum, assignment) ==
    {[uuid |-> uuid, stratum |-> stratum, assignment |-> assignment]}

\* "INSERT INTO allocations(uuid, stratum, assignment) ... ON CONFLICT (uuid)
\* DO NOTHING": the rows the statement writes, given the committed ones.
InsertAllocation(rows, uuid, stratum, assignment) ==
    IF \E row \in rows : row.uuid = uuid
    THEN {}
    ELSE {[uuid |-> uuid, stratum |-> stratum, assignment |-> assignment]}

\* Changed: the upsert writes 1 over the row it finds.
UpsertCountNoUpdate(table, key) == 1

\* Changed: the upsert's update counts down.
UpsertCountDown(table, key) == IF key \in DOMAIN table THEN table[key] - 1 ELSE 1

\* "INSERT ... VALUES (..., 1) ON CONFLICT (...) DO UPDATE SET count = count + 1":
\* the count the statement writes, given the row's latest version.
UpsertCount(table, key) == IF key \in DOMAIN table THEN table[key] + 1 ELSE 1

\* The latest version of the rows a transaction sees when it writes: the
\* committed rows under its own uncommitted ones.
Latest(table, writes) == Overwrite(table, writes)

\* ------------------------------------------------------------------ assign

\* main.assign_pair: the request is read and validated, then the balancer is
\* called, which normalizes the stratum.
StartAssign(p, uuid, stratum, ap_list) ==
    /\ Free(p)
    /\ calls' = calls + 1
    /\ req' = [req EXCEPT ![p] =
                  [op |-> "assign", uuid |-> uuid, stratum |-> NormalizeStratum(stratum),
                   ap_list |-> ap_list, pair |-> <<>>]]
    /\ IF uuid = "" \/ ap_list = <<>>
       THEN Raise(p, "HTTP400")
       ELSE /\ pc' = [pc EXCEPT ![p] = "check"]
            /\ raised' = [raised EXCEPT ![p] = NoError]
            /\ UNCHANGED <<local, tx>>
    /\ UNCHANGED <<db, history, derivation>>

\* The existence check; an existing assignment is returned as stored.
CheckExisting(p) ==
    /\ pc[p] = "check"
    /\ LET existing == SelectExisting(allocations, req[p].uuid, req[p].stratum)
       IN  IF existing # {}
           THEN \E row \in existing :
                    /\ NoteReturned(p, row.assignment)
                    /\ Return(p)
           ELSE /\ pc' = [pc EXCEPT ![p] = "read"]
                /\ local' = [local EXCEPT ![p].i = 1]
                /\ UNCHANGED <<req, raised, tx, returned>>
    /\ UNCHANGED <<db, firstCommitted, recorded, atSubmit, calls, derivation>>

\* One turn of the loop that reads the candidates' counts.
ReadCount(p) ==
    /\ pc[p] = "read"
    /\ LET i == local[p].i
           ap_type == req[p].ap_list[i]
           count == CountOf(ap_type_counts, <<req[p].stratum, ap_type>>)
       IN  /\ local' = [local EXCEPT
                           ![p].ap_type_counts = WithRow(@, ap_type, count),
                           ![p].i = i + 1]
           /\ pc' = [pc EXCEPT ![p] =
                        IF i = Len(req[p].ap_list) THEN "select" ELSE "read"]
    /\ UNCHANGED <<db, req, tx, raised, history, calls, derivation>>

\* The pairs are listed and scored and one of the best is drawn; min() of no
\* score raises ValueError, which the endpoint turns into status 500.
SelectPair(p) ==
    /\ pc[p] = "select"
    /\ IF PairIndexes(req[p].ap_list) = {}
       THEN Raise(p, "HTTP500")
       ELSE \E selected_pair \in BestPairs(req[p].ap_list, local[p].ap_type_counts) :
                /\ local' = [local EXCEPT
                                ![p].assignment = Assignment(selected_pair, req[p].stratum)]
                /\ pc' = [pc EXCEPT ![p] = "insert"]
                /\ UNCHANGED <<raised, tx>>
    /\ UNCHANGED <<db, req, history, calls, derivation>>

\* The INSERT; it waits while another transaction holds a row of the uuid.
InsertRow(p) ==
    /\ pc[p] = "insert"
    /\ ~AllocationLocked(p, req[p].uuid)
    /\ tx' = [tx EXCEPT ![p].allocations =
                 InsertAllocation(allocations, req[p].uuid, req[p].stratum,
                                  local[p].assignment)]
    /\ pc' = [pc EXCEPT ![p] = "commit"]
    /\ UNCHANGED <<db, req, local, raised, history, calls, derivation>>

\* Changed: the call's assignment is written over the participant's row, as
\* "ON CONFLICT (uuid) DO UPDATE" would.
CommitAssignUpdating(p) ==
    /\ pc[p] = "commit"
    /\ allocations' =
          {row \in allocations : row.uuid # req[p].uuid}
              \cup {[uuid |-> req[p].uuid, stratum |-> req[p].stratum,
                     assignment |-> local[p].assignment]}
    /\ firstCommitted' =
          IF <<req[p].uuid, req[p].stratum>> \in DOMAIN firstCommitted
          THEN firstCommitted
          ELSE WithRow(firstCommitted, <<req[p].uuid, req[p].stratum>>,
                       local[p].assignment)
    /\ NoteReturned(p, local[p].assignment)
    /\ Return(p)
    /\ UNCHANGED <<ap_type_counts, pair_counts, responses, recorded, atSubmit, calls, derivation>>

\* db.commit() and "return assignment".
CommitAssign(p) ==
    /\ pc[p] = "commit"
    /\ allocations' = allocations \cup tx[p].allocations
    /\ firstCommitted' =
          IF <<req[p].uuid, req[p].stratum>> \in DOMAIN firstCommitted
          THEN firstCommitted
          ELSE WithRow(firstCommitted, <<req[p].uuid, req[p].stratum>>,
                       local[p].assignment)
    /\ NoteReturned(p, local[p].assignment)
    /\ Return(p)
    /\ UNCHANGED <<ap_type_counts, pair_counts, responses, recorded, atSubmit, calls, derivation>>

\* --------------------------------------------------------- record_response

\* Changed: the pair-count row is keyed by the pair as given.
PairKeyAsGiven(stratum, pair) == <<stratum, pair[1], pair[2]>>

\* The key of the pair-count row: "(stratum, min(pair[0], pair[1]), max(...))".
PairKey(stratum, pair) == <<stratum, Min(pair[1], pair[2]), Max(pair[1], pair[2])>>

\* Changed: the item-count row is keyed without the caller's stratum.
ItemKeyOneStratum(stratum, ap_type) == <<"global", ap_type>>

\* The key of an item-count row.
ItemKey(stratum, ap_type) == <<stratum, ap_type>>

\* Changed: a pair of more than 2 items passes the length check.
ValidPairAtLeastTwo(pair) == Len(pair) >= 2

\* "len(pair) != 2" raises ValueError.
ValidPair(pair) == Len(pair) = 2

\* StratifiedBalancer.increment_pair_count: the length check, then the
\* stratum is normalized.
StartRecord(p, stratum, pair) ==
    /\ Free(p)
    /\ calls' = calls + 1
    /\ req' = [req EXCEPT ![p] =
                  [op |-> "record", uuid |-> "", stratum |-> NormalizeStratum(stratum),
                   ap_list |-> <<>>, pair |-> pair]]
    /\ IF ~ValidPair(pair)
       THEN Raise(p, "ValueError")
       ELSE /\ pc' = [pc EXCEPT ![p] = "pair"]
            /\ raised' = [raised EXCEPT ![p] = NoError]
            /\ UNCHANGED <<local, tx>>
    /\ UNCHANGED <<db, history, derivation>>

\* The upsert of the pair-count row; it waits while the row is locked.
UpsertPair(p) ==
    /\ pc[p] = "pair"
    /\ LET key == PairKey(req[p].stratum, req[p].pair)
       IN  /\ ~PairRowLocked(p, key)
           /\ tx' = [tx EXCEPT ![p].pair_counts =
                        WithRow(@, key, UpsertCount(Latest(pair_counts, @), key))]
    /\ pc' = [pc EXCEPT ![p] = "item"]
    /\ local' = [local EXCEPT ![p].i = 1]
    /\ UNCHANGED <<db, req, raised, history, calls, derivation>>

\* Changed: the loop ends after its first turn, so only pair[0] is counted.
UpsertItemOnce(p) ==
    /\ pc[p] = "item"
    /\ LET key == ItemKey(req[p].stratum, req[p].pair[1])
       IN  /\ ~ItemRowLocked(p, key)
           /\ tx' = [tx EXCEPT ![p].ap_type_counts =
                        WithRow(@, key, UpsertCount(Latest(ap_type_counts, @), key))]
           /\ pc' = [pc EXCEPT ![p] = "commit_counts"]
           /\ local' = [local EXCEPT ![p].i = 2]
    /\ UNCHANGED <<db, req, raised, history, calls, derivation>>

\* One turn of "for ap_type in pair": the upsert of an item-count row.
UpsertItem(p) ==
    /\ pc[p] = "item"
    /\ LET i == local[p].i
           key == ItemKey(req[p].stratum, req[p].pair[i])
       IN  /\ ~ItemRowLocked(p, key)
           /\ tx' = [tx EXCEPT ![p].ap_type_counts =
                        WithRow(@, key, UpsertCount(Latest(ap_type_counts, @), key))]
           /\ pc' = [pc EXCEPT ![p] =
                        IF i = Len(req[p].pair) THEN "commit_counts" ELSE "item"]
           /\ local' = [local EXCEPT ![p].i = i + 1]
    /\ UNCHANGED <<db, req, raised, history, calls, derivation>>

\* db.commit(): the rows the transaction wrote become the committed ones;
\* the call returns None, to the submit endpoint when that is the caller.
CommitRecord(p) ==
    /\ pc[p] = "commit_counts"
    /\ pair_counts' = Overwrite(pair_counts, tx[p].pair_counts)
    /\ ap_type_counts' = Overwrite(ap_type_counts, tx[p].ap_type_counts)
    /\ recorded' = WithRow(recorded, PairKey(req[p].stratum, req[p].pair),
                           CountOf(recorded, PairKey(req[p].stratum, req[p].pair)) + 1)
    /\ IF req[p].op = "submit"
       THEN /\ pc' = [pc EXCEPT ![p] = "save"]
            /\ local' = [local EXCEPT ![p] = NoLocal]
            /\ tx' = [tx EXCEPT ![p] = NoTx]
            /\ UNCHANGED <<req, raised>>
       ELSE Return(p)
    /\ UNCHANGED <<allocations, responses, returned, firstCommitted, atSubmit, calls, derivation>>

\* Changed: the endpoint checks the pair and raises status 400 when it has not
\* exactly 2 items.
StartSubmitValidating(p, uuid, stratum, pair) ==
    /\ Free(p)
    /\ calls' = calls + 1
    /\ req' = [req EXCEPT ![p] =
                  [op |-> "submit", uuid |-> uuid, stratum |-> NormalizeStratum(stratum),
                   ap_list |-> <<>>, pair |-> pair]]
    /\ atSubmit' = [atSubmit EXCEPT ![p] =
                       [pair_counts |-> pair_counts, ap_type_counts |-> ap_type_counts,
                        responses |-> responses]]
    /\ IF uuid = "" \/ Len(pair) # 2
       THEN Raise(p, "HTTP400")
       ELSE /\ pc' = [pc EXCEPT ![p] = "pair"]
            /\ raised' = [raised EXCEPT ![p] = NoError]
            /\ UNCHANGED <<local, tx>>
    /\ UNCHANGED <<db, returned, firstCommitted, recorded, derivation>>

\* main.submit_response is called with a payload: "if not uuid" raises status
\* 400 (a request without p_payload has no uuid either); the tallies are
\* incremented "if pair and len(pair) == 2", otherwise the response is saved
\* at once.
StartSubmit(p, uuid, stratum, pair) ==
    /\ Free(p)
    /\ calls' = calls + 1
    /\ req' = [req EXCEPT ![p] =
                  [op |-> "submit", uuid |-> uuid, stratum |-> NormalizeStratum(stratum),
                   ap_list |-> <<>>, pair |-> pair]]
    /\ atSubmit' = [atSubmit EXCEPT ![p] =
                       [pair_counts |-> pair_counts, ap_type_counts |-> ap_type_counts,
                        responses |-> responses]]
    /\ IF uuid = ""
       THEN Raise(p, "HTTP400")
       ELSE /\ pc' = [pc EXCEPT ![p] = IF Len(pair) = 2 THEN "pair" ELSE "save"]
            /\ raised' = [raised EXCEPT ![p] = NoError]
            /\ UNCHANGED <<local, tx>>
    /\ UNCHANGED <<db, returned, firstCommitted, recorded, derivation>>

\* "INSERT INTO responses(...) VALUES (...)": the row is written in a new
\* transaction.
SaveResponse(p) ==
    /\ pc[p] = "save"
    /\ pc' = [pc EXCEPT ![p] = "commit_response"]
    /\ UNCHANGED <<db, req, local, tx, raised, history, calls, derivation>>

\* db.commit() and 'return {"success": True}'.
CommitResponse(p) ==
    /\ pc[p] = "commit_response"
    /\ responses' = WithRow(responses, <<req[p].uuid, req[p].pair>>,
                            CountOf(responses, <<req[p].uuid, req[p].pair>>) + 1)
    /\ atSubmit' = [atSubmit EXCEPT ![p] = NoSnapshot]
    /\ Return(p)
    /\ UNCHANGED <<allocations, ap_type_counts, pair_counts,
                   returned, firstCommitted, recorded, calls, derivation>>

\* A statement of the submission raises (the database reports an error):
\* "except Exception" runs db.rollback(), which drops what the open
\* transaction wrote, and raises status 500.
StatementFails(p) ==
    /\ req[p].op = "submit"
    /\ pc[p] \in {"pair", "item", "commit_counts", "save", "commit_response"}
    /\ Raise(p, "HTTP500")
    /\ UNCHANGED <<db, req, history, calls, derivation>>

\* increment_pair_count run alone from the committed rows: the pair-count and
\* the item-count rows after it.
IncrementPairCount(pairs, items, stratum, pair) ==
    LET s == NormalizeStratum(stratum)
        pairs1 == WithRow(pairs, PairKey(s, pair), UpsertCount(pairs, PairKey(s, pair)))
        items1 == WithRow(items, ItemKey(s, pair[1]),
                          UpsertCount(items, ItemKey(s, pair[1])))
        items2 == WithRow(items1, ItemKey(s, pair[2]),
                          UpsertCount(items1, ItemKey(s, pair[2])))
    IN  <<pairs1, items2>>

\* The callers whose lock the caller's next statement waits for.
WaitsFor(p) ==
    CASE pc[p] = "insert" ->
            {q \in Procs \ {p} : \E row \in tx[q].allocations : row.uuid = req[p].uuid}
      [] pc[p] = "pair" ->
            {q \in Procs \ {p} :
                PairKey(req[p].stratum, req[p].pair) \in DOMAIN tx[q].pair_counts}
      [] pc[p] = "item" ->
            {q \in Procs \ {p} :
                ItemKey(req[p].stratum, req[p].pair[local[p].i])
                    \in DOMAIN tx[q].ap_type_counts}
      [] OTHER -> {}

RECURSIVE WaitChain(_, _)
\* The callers reached from S along at most n waits.
WaitChain(S, n) ==
    IF n = 0 THEN S ELSE WaitChain(S \cup UNION {WaitsFor(q) : q \in S}, n - 1)

\* The caller waits, directly or not, for a lock that waits for its own.
Deadlocked(p) == p \in WaitChain(WaitsFor(p), NumProcs)

\* The engine ends a deadlock by failing the statement of one of the waiting
\* transactions, which loses the rows it wrote; cur.execute raises.
DeadlockAbort(p) ==
    /\ Deadlocked(p)
    /\ Raise(p, "DeadlockDetected")
    /\ UNCHANGED <<db, req, history, calls, derivation>>

\* ------------------------------------------------- derive_experience_band

\* "x or ''" and str(): None and the empty string give the empty string.
StrOrEmpty(x) == IF x = None THEN <<>> ELSE x

RECURSIVE LStrip(_)
LStrip(str) == IF str # <<>> /\ Head(str) = " " THEN LStrip(Tail(str)) ELSE str

RECURSIVE RStrip(_)
RStrip(str) ==
    IF str # <<>> /\ str[Len(str)] = " " THEN RStrip(SubSeq(str, 1, Len(str) - 1)) ELSE str

\* str.strip().
Strip(str) == RStrip(LStrip(str))

UpperCase == <<"A", "E", "L", "N", "O", "P", "R", "S", "V", "W">>

LowerCase == <<"a", "e", "l", "n", "o", "p", "r", "s", "v", "w">>

\* str.lower().
Lower(str) ==
    [i \in 1..Len(str) |->
        IF \E k \in 1..Len(UpperCase) : UpperCase[k] = str[i]
        THEN LowerCase[CHOOSE k \in 1..Len(UpperCase) : UpperCase[k] = str[i]]
        ELSE str[i]]

\* logic.derive_experience_band.
derive_experience_band(years_arg, training_arg) ==
    LET y == Strip(StrOrEmpty(years_arg))
        t == Lower(Strip(StrOrEmpty(training_arg)))
    IN  IF y = <<"0", "-", "1">>
           \/ t \in { <<"n", "o", "n", "e">>,
                       <<"a", "w", "a", "r", "e", "n", "e", "s", "s">> }
        THEN "novice"
        ELSE IF y = <<"2", "-", "5">> \/ t = <<"l", "e", "v", "e", "l", "1">>
             THEN "intermediate"
             ELSE "advanced"

\* A call of derive_experience_band.
DeriveBand ==
    /\ \E y \in YearsInputs, t \in TrainingInputs :
           /\ years' = y
           /\ training' = t
           /\ band' = derive_experience_band(y, t)
    /\ UNCHANGED <<db, pc, req, local, tx, raised, history, calls>>

NextBand == DeriveBand

SpecBand == Init /\ [][NextBand]_vars

\* ---------------------------------------------------------- specifications

\* The statements of the call a caller is in.
Step(p) ==
    \/ CheckExisting(p)
    \/ ReadCount(p)
    \/ SelectPair(p)
    \/ InsertRow(p)
    \/ CommitAssign(p)
    \/ UpsertPair(p)
    \/ UpsertItem(p)
    \/ CommitRecord(p)

\* A request may arrive while calls are left; the first free caller takes it
\* (the callers are interchangeable).
Accepts(p) == calls < MaxCalls /\ \A q \in Procs : q < p => ~Free(q)

\* An assign request arrives.
ArriveAssign(p, uuids, strata, ap_lists) ==
    /\ Accepts(p)
    /\ \E uuid \in uuids, stratum \in strata, ap_list \in ap_lists :
           StartAssign(p, uuid, stratum, ap_list)

\* A record_response request arrives.
ArriveRecord(p, strata, pairs) ==
    /\ Accepts(p)
    /\ \E stratum \in strata, pair \in pairs :
           StartRecord(p, stratum, pair)

\* Concurrent callers: every interleaving of the statements of their calls.
Next ==
    \E p \in Procs :
        \/ ArriveAssign(p, ConcurrentUuidInputs, ConcurrentStratumInputs,
                        ConcurrentApListInputs)
        \/ ArriveRecord(p, ConcurrentStratumInputs, ConcurrentPairInputs)
        \/ Step(p)
        \/ DeadlockAbort(p)

Spec == Init /\ [][Next]_vars

\* Concurrent assign calls alone.
NextAssign ==
    \E p \in Procs :
        \/ ArriveAssign(p, ConcurrentUuidInputs, ConcurrentStratumInputs,
                        ConcurrentApListInputs)
        \/ CheckExisting(p)
        \/ ReadCount(p)
        \/ SelectPair(p)
        \/ InsertRow(p)
        \/ CommitAssign(p)

SpecAssign == Init /\ [][NextAssign]_vars

\* Concurrent record_response calls alone.
NextRecord ==
    \E p \in Procs :
        \/ ArriveRecord(p, ConcurrentStratumInputs, ConcurrentPairInputs)
        \/ UpsertPair(p)
        \/ UpsertItem(p)
        \/ CommitRecord(p)
        \/ DeadlockAbort(p)

SpecRecord == Init /\ [][NextRecord]_vars

\* One call at a time: a request arrives only when no call is running.
NextSeq ==
    \E p \in Procs :
        \/ /\ \A q \in Procs : Free(q)
           /\ ArriveAssign(p, UuidInputs, StratumInputs, ApListInputs)
        \/ /\ \A q \in Procs : Free(q)
           /\ ArriveRecord(p, StratumInputs, PairInputs)
        \/ Step(p)

SpecSeq == Init /\ [][NextSeq]_vars

\* Payloads a submission may carry: the participant, the stratum and the
\* pair ("" and <<>> where the payload has none).
SubmitUuidInputs == {"", "u1"}

SubmitStratumInputs == {"", "novice"}

SubmitPairInputs == PairInputs \cup {<<>>}

\* A submission arrives.
ArriveSubmit(p, uuids, strata, pairs) ==
    /\ Accepts(p)
    /\ \E uuid \in uuids, stratum \in strata, pair \in pairs :
           StartSubmit(p, uuid, stratum, pair)

\* Submissions, one at a time, any statement of which may fail.
NextSubmit ==
    \E p \in Procs :
        \/ /\ \A q \in Procs : Free(q)
           /\ ArriveSubmit(p, SubmitUuidInputs, SubmitStratumInputs, SubmitPairInputs)
        \/ UpsertPair(p)
        \/ UpsertItem(p)
        \/ CommitRecord(p)
        \/ SaveResponse(p)
        \/ CommitResponse(p)
        \/ StatementFails(p)

SpecSubmit == Init /\ [][NextSubmit]_vars

\* One call at a time, every request with an empty or absent stratum.
NextBlank ==
    \E p \in Procs :
        \/ /\ \A q \in Procs : Free(q)
           /\ ArriveAssign(p, UuidInputs, {""}, ApListInputs)
        \/ /\ \A q \in Procs : Free(q)
           /\ ArriveRecord(p, {""}, PairInputs)
        \/ Step(p)

SpecBlank == Init /\ [][NextBlank]_vars

RECURSIVE SumOver(_, _)
\* The sum of the counts of the keys in S.
SumOver(table, S) ==
    IF S = {} THEN 0
    ELSE LET key == CHOOSE k \in S : TRUE
         IN  table[key] + SumOver(table, S \ {key})

\* The number of record_response calls committed.
RoundsRecorded == SumOver(recorded, DOMAIN recorded)

\* The balancing rounds: a new participant is assigned a pair from the pool,
\* then record_response is called with the returned pair.
RoundAssign(p) ==
    /\ RoundsRecorded = Cardinality(allocations)
    /\ Cardinality(allocations) < Len(RoundUuids)
    /\ StartAssign(p, RoundUuids[Cardinality(allocations) + 1], RoundStratum, RoundPool)

RoundRecord(p) ==
    /\ RoundsRecorded < Cardinality(allocations)
    /\ \E pair \in PairsReturned(<<RoundUuids[Cardinality(allocations)], RoundStratum>>) :
           StartRecord(p, RoundStratum, pair)

NextRounds == \E p \in {1} : RoundAssign(p) \/ RoundRecord(p) \/ Step(p)

SpecRounds == Init /\ [][NextRounds]_vars

\* ------------------------------------------------------------- properties

\* The caller that takes the request arriving in this step.
Starts(p) == calls' = calls + 1 /\ Accepts(p)

\* The step in which a caller's record_response commits and returns.
RecordCommits(p) == pc[p] = "commit_counts" /\ pc'[p] = "idle"

\* The step in which a caller's call ends, and the arguments of that call.
Ends(p) == pc'[p] \in {"idle", "raised"} /\ (Starts(p) \/ ~Free(p))

EndedCall(p) == IF Starts(p) THEN req'[p] ELSE req[p]

\* A participant holds a row under another stratum than the key's.
HeldInOtherStratum(key) ==
    \E row \in allocations : row.uuid = key[1] /\ row.stratum # key[2]

\* The rows of a key.
RowsOf(key) == SelectExisting(allocations, key[1], key[2])

\* C1: with one call at a time, every assign call for a key returns the pair
\* the first assign call for that key returned, whatever the candidates and
\* the tallies of the later calls and whatever the participant holds in
\* another stratum.
C1_AssignIdempotent ==
    \A key \in DOMAIN returned : Cardinality(returned[key]) <= 1

\* C2: concurrent assign calls for one key, the participant holding nothing in
\* another stratum, all return the same pair, and it is the pair of the
\* stored row.
C2_ConcurrentAssignAgree ==
    \A key \in DOMAIN returned :
        ~HeldInOtherStratum(key) =>
            /\ Cardinality(returned[key]) <= 1
            /\ \A pair \in returned[key] :
                   \E row \in RowsOf(key) : row.assignment.pair = pair

\* C3: there is at most one allocation row per (participant, stratum), and
\* the row of a key is the one the first committed INSERT for the key wrote.
C3_OneRowFirstWriteWins ==
    /\ \A r1 \in allocations, r2 \in allocations :
           (r1.uuid = r2.uuid /\ r1.stratum = r2.stratum) => r1 = r2
    /\ \A row \in allocations :
           /\ <<row.uuid, row.stratum>> \in DOMAIN firstCommitted
           /\ firstCommitted[<<row.uuid, row.stratum>>] = row.assignment

\* C3's case: a later INSERT for the key of a stored row, with another pair,
\* has committed and returned.
C3_Witness ==
    \E row \in allocations :
        /\ Cardinality(PairsReturned(<<row.uuid, row.stratum>>)) > 1
        /\ firstCommitted[<<row.uuid, row.stratum>>] = row.assignment

\* The item tallies of the pool in the stratum of the rounds.
RoundTallies ==
    {CountOf(ap_type_counts, ItemKey(RoundStratum, RoundPool[i])) :
        i \in 1..Len(RoundPool)}

\* C4: in the balancing rounds the largest item tally of the stratum exceeds
\* the smallest by at most 1.
C4_TalliesWithinOne ==
    \A m \in RoundTallies, n \in RoundTallies : m - n <= 1

\* C5: after the first participant's pair has been recorded once, the pair
\* assign returns for the second participant contains the item of count 0.
C5_SecondPairHasUnusedItem ==
    (/\ Cardinality(allocations) = 2
     /\ RoundsRecorded = 1
     /\ RoundTallies = {0, 1})
        => \A pair \in PairsReturned(<<RoundUuids[2], RoundStratum>>) :
               \E i \in 1..2 :
                   CountOf(ap_type_counts, ItemKey(RoundStratum, pair[i])) = 0

\* C6: a record_response of [a, b], a # b, that commits raises the item
\* tallies of a and of b and the pair tally of (min, max) in the stratum by
\* exactly 1, from 0 where there is no row, and changes no other tally row and
\* no allocation.
C6_RecordIncrements ==
    [][\A p \in Procs :
          (RecordCommits(p) /\ req[p].pair[1] # req[p].pair[2]) =>
              LET s == req[p].stratum
                  a == req[p].pair[1]
                  b == req[p].pair[2]
              IN  /\ ap_type_counts' =
                        WithRow(WithRow(ap_type_counts,
                                        <<s, a>>, CountOf(ap_type_counts, <<s, a>>) + 1),
                                <<s, b>>, CountOf(ap_type_counts, <<s, b>>) + 1)
                  /\ pair_counts' =
                        WithRow(pair_counts, <<s, Min(a, b), Max(a, b)>>,
                                CountOf(pair_counts, <<s, Min(a, b), Max(a, b)>>) + 1)
                  /\ allocations' = allocations]_vars

\* C6's case: the same call has been repeated and each of its three counts
\* stands at 2 or more.
C6_Witness ==
    \E key \in DOMAIN recorded :
        /\ key[2] # key[3]
        /\ recorded[key] >= 2
        /\ CountOf(pair_counts, key) >= 2
        /\ \A i \in 2..3 : CountOf(ap_type_counts, ItemKey(key[1], key[i])) >= 2

\* C7: a record_response of [a, b] leaves the tallies as a record_response of
\* [b, a] from the same state would, and no pair-tally row is keyed (x, y)
\* with x > y.
C7_OrderInsensitive ==
    [][/\ \A key \in DOMAIN pair_counts' : Rank(key[2]) <= Rank(key[3])
       /\ \A p \in Procs :
              RecordCommits(p) =>
                  <<pair_counts', ap_type_counts'>> =
                      IncrementPairCount(pair_counts, ap_type_counts, req[p].stratum,
                                         <<req[p].pair[2], req[p].pair[1]>>)]_vars

\* C7's case: the pair has been recorded once, and a call that gives it in
\* descending order has written 2 to the row of the ascending key and is
\* about to commit.
C7_Witness ==
    \E p \in Procs :
        /\ pc[p] = "commit_counts"
        /\ Rank(req[p].pair[1]) > Rank(req[p].pair[2])
        /\ CountOf(recorded, <<req[p].stratum, req[p].pair[2], req[p].pair[1]>>) = 1
        /\ CountOf(tx[p].pair_counts,
                   <<req[p].stratum, req[p].pair[2], req[p].pair[1]>>) = 2

\* C8: a record_response whose pair has not exactly 2 items raises the
\* validation error and changes no item tally and no pair tally.
C8_BadPairRejected ==
    [][\A p \in Procs :
          (Starts(p) /\ req'[p].op = "record" /\ Len(req'[p].pair) # 2) =>
              /\ pc'[p] = "raised"
              /\ raised'[p] = "ValueError"
              /\ tx'[p] = NoTx
              /\ UNCHANGED <<ap_type_counts, pair_counts>>]_vars

\* C8's case: a pair of 1 or 3 items was rejected when there were tallies.
C8_Witness ==
    \E p \in Procs :
        /\ pc[p] = "raised" /\ req[p].op = "record" /\ Len(req[p].pair) \in {1, 3}
        /\ raised[p] = "ValueError"
        /\ DOMAIN ap_type_counts # {} /\ DOMAIN pair_counts # {}

\* C9: an assign without participant id or with fewer than 2 candidates ends
\* in the client-input error (status 400).
C9_BadAssignRejected ==
    [][\A p \in Procs :
          (/\ Ends(p)
           /\ EndedCall(p).op = "assign"
           /\ (EndedCall(p).uuid = "" \/ Len(EndedCall(p).ap_list) < 2))
              => pc'[p] = "raised" /\ raised'[p] = "HTTP400"]_vars

\* The number of committed record_response calls whose pair holds the item.
RecordedWith(stratum, ap_type) ==
    SumOver(recorded,
            {key \in DOMAIN recorded :
                key[1] = stratum /\ ap_type \in {key[2], key[3]}})

\* C10: under concurrent record_response calls every pair tally is the number
\* of committed calls for the pair and every item tally the number of
\* committed calls whose pair holds the item.
C10_NoLostUpdate ==
    /\ DOMAIN pair_counts = DOMAIN recorded
    /\ \A key \in DOMAIN recorded : pair_counts[key] = recorded[key]
    /\ \A stratum \in {key[1] : key \in DOMAIN ap_type_counts \cup DOMAIN recorded},
          ap_type \in Items :
           CountOf(ap_type_counts, ItemKey(stratum, ap_type))
               = RecordedWith(stratum, ap_type)

\* C10's case: a call has committed a count, a second holds the row with its
\* own increment not yet committed, and a third waits for that row.
C10_Witness ==
    \E p \in Procs, q \in Procs :
        /\ p \in WaitsFor(q)
        /\ pc[q] = "item"
        /\ tx[p].ap_type_counts[ItemKey(req[q].stratum, req[q].pair[local[q].i])] = 2

\* The step in which a caller's assign commits and returns the assignment it
\* built.
AssignCommits(p) == pc[p] = "commit" /\ pc'[p] = "idle"

\* The items of a candidate list.
Candidates(ap_list) == {ap_list[i] : i \in 1..Len(ap_list)}

\* C11: when an assign call that found no allocation for its key returns, a
\* row of exactly that (participant, normalized stratum) exists and holds the
\* returned pair and stratum, also when the participant holds a row in
\* another stratum.
C11_AssignStoresReturned ==
    [][\A p \in Procs :
          AssignCommits(p) =>
              \E row \in allocations' :
                  /\ row.uuid = req[p].uuid
                  /\ row.stratum = req[p].stratum
                  /\ row.assignment = local[p].assignment]_vars

\* C12: the pair an assign call builds and returns, and the pair of every row
\* its commit adds, is two distinct items of the call's candidate list; every
\* stored pair is two distinct items.
C12_PairFromCandidates ==
    [][/\ \A p \in Procs :
              AssignCommits(p) =>
                  LET pair == local[p].assignment.pair
                  IN  /\ Len(pair) = 2
                      /\ pair[1] # pair[2]
                      /\ {pair[1], pair[2]} \subseteq Candidates(req[p].ap_list)
                      /\ \A row \in allocations' \ allocations :
                             row.assignment.pair = pair
       /\ \A row \in allocations' :
              /\ Len(row.assignment.pair) = 2
              /\ row.assignment.pair[1] # row.assignment.pair[2]]_vars

\* C12's case: two rows are stored, one with the pair of the 2-item list and
\* one with a pair only the 3-item list yields.
C12_Witness ==
    /\ \E row \in allocations : "persistent" \in Candidates(row.assignment.pair)
    /\ \E row \in allocations : row.assignment.pair = <<"storm", "wind">>
    /\ Cardinality(allocations) >= 2

\* The strata of the rows of the three relations, committed or written by an
\* open transaction, and of the assignments built.
StrataStored ==
    {row.stratum : row \in allocations}
        \cup {row.assignment.stratum : row \in allocations}
        \cup {key[1] : key \in DOMAIN ap_type_counts \cup DOMAIN pair_counts}
        \cup UNION {{row.stratum : row \in tx[p].allocations} : p \in Procs}
        \cup UNION {{key[1] : key \in DOMAIN tx[p].ap_type_counts
                                      \cup DOMAIN tx[p].pair_counts} : p \in Procs}
        \cup {local[p].assignment.stratum :
                 p \in {q \in Procs : local[q].assignment.pair # <<>>}}

\* C13: when every call carries an empty stratum, every statement of a call
\* reads and writes under the stratum "global", every row stored and every
\* assignment built has the stratum "global", as for a call that carries
\* "global", and no row has an empty stratum.
C13_EmptyStratumIsGlobal ==
    /\ StrataStored \subseteq {"global"}
    /\ \A p \in Procs : ~Free(p) => req[p].stratum = "global"
    /\ NormalizeStratum("global") = "global"
    /\ \A pair \in ConcurrentPairInputs :
           IncrementPairCount(pair_counts, ap_type_counts, "", pair)
               = IncrementPairCount(pair_counts, ap_type_counts, "global", pair)

\* C13's case: calls with an empty stratum have stored an allocation, an item
\* tally and a pair tally.
C13_Witness ==
    /\ allocations # {}
    /\ DOMAIN ap_type_counts # {}
    /\ DOMAIN pair_counts # {}

\* The step in which a caller's assign draws its pair.
AssignSelects(p) == pc[p] = "select" /\ pc'[p] = "insert"

\* The step in which a caller's assign reads the count of a candidate.
AssignReads(p) == pc[p] = "read" /\ local'[p].i = local[p].i + 1

\* The larger of the tallies a call read for two items.
ScoreRead(p, a, b) == MaxInt(local[p].ap_type_counts[a], local[p].ap_type_counts[b])

\* C14: each count an assign call reads is the committed tally of the item in
\* the call's stratum, 0 where there is no row, and the pair the call draws
\* has, by the counts the call read, a score no larger than that of any pair
\* of two candidates.
C14_ChosenPairIsMinimal ==
    [][\A p \in Procs :
          /\ AssignReads(p) =>
                 LET ap_type == req[p].ap_list[local[p].i]
                     key == <<req[p].stratum, ap_type>>
                 IN  local'[p].ap_type_counts[ap_type] =
                         IF key \in DOMAIN ap_type_counts THEN ap_type_counts[key] ELSE 0
          /\ AssignSelects(p) =>
                 LET pair == local'[p].assignment.pair
                 IN  \A a \in Candidates(req[p].ap_list), b \in Candidates(req[p].ap_list) :
                         a # b => ScoreRead(p, pair[1], pair[2]) <= ScoreRead(p, a, b)]_vars

\* C14's case: a call has drawn a pair while another pair of its candidates
\* has a higher score.
C14_Witness ==
    \E p \in Procs :
        /\ pc[p] = "insert"
        /\ \E a \in Candidates(req[p].ap_list), b \in Candidates(req[p].ap_list) :
               /\ a # b
               /\ ScoreRead(p, a, b) >
                      ScoreRead(p, local[p].assignment.pair[1], local[p].assignment.pair[2])

\* The unordered pairs of candidates whose score, by the counts read, is the
\* least.
MinimalPairs(p) ==
    LET C == Candidates(req[p].ap_list)
    IN  { {a, b} : <<a, b>> \in
            {ab \in C \X C :
                /\ ab[1] # ab[2]
                /\ \A c \in C, d \in C :
                       c # d => ScoreRead(p, ab[1], ab[2]) <= ScoreRead(p, c, d)} }

\* C15: when a call is about to draw, every unordered pair of candidates whose
\* score is the least is a possible outcome of the draw.
C15_EveryMinimalPairPossible ==
    \A p \in Procs :
        pc[p] = "select" =>
            \A ab \in MinimalPairs(p) :
                ENABLED (SelectPair(p) /\ Candidates(local'[p].assignment.pair) = ab)

\* C15's case: a call is about to draw from three candidates all at count 0,
\* where all three pairs tie.
C15_Witness ==
    \E p \in Procs :
        /\ pc[p] = "select"
        /\ Cardinality(MinimalPairs(p)) = 3
        /\ \A a \in Candidates(req[p].ap_list) : local[p].ap_type_counts[a] = 0

\* The tallies of the two relations.
tallies == <<ap_type_counts, pair_counts>>

\* The caller whose call takes this step.
Acts(p) == pc'[p] # pc[p] \/ local'[p] # local[p] \/ Starts(p)

\* Every row of the relation is kept and its count has not gone down.
NotDecreased(before, after) ==
    \A key \in DOMAIN before :
        key \in DOMAIN after /\ after[key] >= before[key] /\ before[key] >= 0

\* C16: no step lowers or removes an item tally or a pair tally, no tally is
\* negative, the tallies change only in the commit of a record_response, and
\* no step of an assign call changes them.
C16_TalliesOnlyGrowInRecord ==
    [][/\ NotDecreased(ap_type_counts, ap_type_counts')
       /\ NotDecreased(pair_counts, pair_counts')
       /\ \A key \in DOMAIN ap_type_counts' : ap_type_counts'[key] >= 0
       /\ \A key \in DOMAIN pair_counts' : pair_counts'[key] >= 0
       /\ tallies' # tallies => \E p \in Procs : RecordCommits(p) /\ req[p].op = "record"
       /\ \A p \in Procs :
              (Acts(p) /\ EndedCall(p).op = "assign") => tallies' = tallies]_vars

\* C16's case: with tallies of 2 stored, an assign call is about to commit a
\* new allocation.
C16_Witness ==
    \E p \in Procs :
        /\ pc[p] = "commit" /\ tx[p].allocations # {}
        /\ \E key \in DOMAIN ap_type_counts : ap_type_counts[key] >= 2
        /\ \E key \in DOMAIN pair_counts : pair_counts[key] >= 2

\* The step in which a caller's assign returns the allocation it found.
AssignReturnsExisting(p) == pc[p] = "check" /\ pc'[p] = "idle"

\* C17: no step removes an allocation row or changes its pair or stratum, no
\* step adds a second row for a key that has one, and an assign call that
\* finds an allocation writes nothing.
C17_AllocationImmutable ==
    [][/\ allocations \subseteq allocations'
       /\ \A new \in allocations' \ allocations :
              \A row \in allocations :
                  ~(row.uuid = new.uuid /\ row.stratum = new.stratum)
       /\ \A p \in Procs :
              AssignReturnsExisting(p) =>
                  /\ db' = db
                  /\ tx[p] = NoTx]_vars

\* C17's case: with an allocation stored and a tally recorded, an assign call
\* for the participant in another stratum is about to commit.
C17_Witness ==
    \E p \in Procs :
        /\ pc[p] = "commit"
        /\ \E row \in allocations : row.uuid = req[p].uuid /\ row.stratum # req[p].stratum
        /\ DOMAIN recorded # {}

\* The assignments built by the calls in flight, stored in rows, and written
\* by open transactions.
PairsBuilt ==
    {local[p].assignment.pair : p \in {q \in Procs : pc[q] \in {"insert", "commit"}}}
        \cup {row.assignment.pair : row \in allocations}
        \cup UNION {{row.assignment.pair : row \in tx[p].allocations} : p \in Procs}
        \cup UNION {returned[key] : key \in DOMAIN returned}

\* C18 as stated: the pair an assign call builds has its items in the order
\* in which they stand in the call's candidate list.
C18_PairKeepsListOrder ==
    \A p \in Procs :
        pc[p] \in {"insert", "commit"} =>
            \E ij \in PairIndexes(req[p].ap_list) :
                local[p].assignment.pair = <<req[p].ap_list[ij[1]], req[p].ap_list[ij[2]]>>

\* C18 as amended: every pair built, stored or returned by assign is in
\* identifier order (min, max), whatever the order of the candidate list.
C18_PairStoredSorted ==
    \A pair \in PairsBuilt : Len(pair) = 2 /\ Rank(pair[1]) < Rank(pair[2])

\* C18's case: a call given the candidates "wind", "storm" in this order is
\* about to commit the row it wrote.
C18_Witness ==
    \E p \in Procs :
        /\ pc[p] = "commit"
        /\ req[p].ap_list = <<"wind", "storm">>
        /\ tx[p].allocations # {}

\* The count of an item in a stratum.
Tally(stratum, ap_type) ==
    IF <<stratum, ap_type>> \in DOMAIN ap_type_counts
    THEN ap_type_counts[<<stratum, ap_type>>] ELSE 0

\* The unordered pairs of candidates whose score is the least, from the
\* committed item tallies of the candidates in the stratum and nothing else.
DecisionFrom(stratum, ap_list) ==
    LET C == Candidates(ap_list)
        Score(a, b) == MaxInt(Tally(stratum, a), Tally(stratum, b))
    IN  { {ab[1], ab[2]} : ab \in
            {cd \in C \X C :
                /\ cd[1] # cd[2]
                /\ \A e \in C, f \in C : e # f => Score(cd[1], cd[2]) <= Score(e, f)} }

\* The unordered pairs a call that is about to draw can draw.
Drawable(p) ==
    { ab \in { {a, b} : <<a, b>> \in Items \X Items } :
        ENABLED (SelectPair(p) /\ Candidates(local'[p].assignment.pair) = ab) }

\* C19: with one call at a time, the pairs a call with no allocation for its
\* key can draw are those given by the item tallies of its candidates in its
\* stratum alone, and a record_response changes no tally row of another
\* stratum than its own.
C19_DecisionFromItemTallies ==
    /\ \A p \in Procs :
           (pc[p] = "select" /\ PairIndexes(req[p].ap_list) # {}) =>
               Drawable(p) = DecisionFrom(req[p].stratum, req[p].ap_list)
    /\ \A p \in Procs :
           pc[p] = "commit_counts" =>
               /\ \A key \in DOMAIN tx[p].ap_type_counts \cup DOMAIN tx[p].pair_counts :
                      key[1] = req[p].stratum
               /\ \A key \in DOMAIN ap_type_counts :
                      key[1] # req[p].stratum =>
                          Overwrite(ap_type_counts, tx[p].ap_type_counts)[key]
                              = ap_type_counts[key]
               /\ \A key \in DOMAIN pair_counts :
                      key[1] # req[p].stratum =>
                          Overwrite(pair_counts, tx[p].pair_counts)[key] = pair_counts[key]

\* C19's case: a call is about to draw while its candidates have unequal
\* tallies in another stratum, pair tallies exist, and none in its own.
C19_Witness ==
    \E p \in Procs :
        /\ pc[p] = "select"
        /\ Len(req[p].ap_list) = 3
        /\ \A a \in Candidates(req[p].ap_list) : Tally(req[p].stratum, a) = 0
        /\ \E stratum \in {"global", "novice"} \ {req[p].stratum} :
               \E a \in Items, b \in Items : Tally(stratum, a) > Tally(stratum, b)
        /\ DOMAIN pair_counts # {}

\* C20: after a submission has failed, the pair tallies, the item tallies and
\* the stored responses are as they were when the submission began.
C20_FailedSubmitLeavesNothing ==
    \A p \in Procs :
        (pc[p] = "raised" /\ req[p].op = "submit") =>
            /\ pair_counts = atSubmit[p].pair_counts
            /\ ap_type_counts = atSubmit[p].ap_type_counts
            /\ responses = atSubmit[p].responses

\* The strata that have a tally row.
StrataTallied == {key[1] : key \in DOMAIN ap_type_counts \cup DOMAIN pair_counts}

\* The sum of the counts of the rows of a stratum.
StratumSum(table, stratum) ==
    SumOver(table, {key \in DOMAIN table : key[1] = stratum})

\* C21: in every committed state and for every stratum, the item tallies of
\* the stratum add up to twice what its pair tallies add up to.
C21_ItemSumTwicePairSum ==
    \A stratum \in StrataTallied :
        StratumSum(ap_type_counts, stratum) = 2 * StratumSum(pair_counts, stratum)

\* C21's case: calls have committed pairs in two strata while another call's
\* increments are written and not committed.
C21_Witness ==
    /\ Cardinality(StrataTallied) = 2
    /\ \E p \in Procs : pc[p] = "commit_counts"

\* The step of a caller inside a submission whose pair has not 2 items.
MalformedSubmitActs(p) ==
    /\ req[p].op = "submit" /\ Len(req[p].pair) # 2
    /\ ~Free(p) /\ pc'[p] # pc[p]

\* C22: a submission with a participant whose pair is absent or has not
\* exactly 2 items is not rejected for it: it goes straight to saving the
\* response, no step of it changes a tally, it ends in an error only when a
\* database statement fails (status 500), and its commit adds one response
\* row and returns success.
C22_MalformedPairSubmitStored ==
    [][\A p \in Procs :
          /\ (Starts(p) /\ req'[p].op = "submit"
                  /\ req'[p].uuid # "" /\ Len(req'[p].pair) # 2) =>
                 /\ pc'[p] = "save"
                 /\ raised'[p] = NoError
                 /\ tallies' = tallies
                 /\ responses' = responses
          /\ MalformedSubmitActs(p) =>
                 /\ tallies' = tallies
                 /\ pc'[p] = "raised" => raised'[p] = "HTTP500" /\ responses' = responses
                 /\ pc'[p] = "idle" =>
                        responses' =
                            WithRow(responses, <<req[p].uuid, req[p].pair>>,
                                    CountOf(responses, <<req[p].uuid, req[p].pair>>) + 1)]_vars

\* C22's case: with tallies stored, responses without a pair, with a 1-item
\* and with a 3-item pair have been saved.
C22_Witness ==
    /\ DOMAIN pair_counts # {}
    /\ \E key \in DOMAIN responses : Len(key[2]) \in {0, 1}
    /\ \E key \in DOMAIN responses : Len(key[2]) = 3


\* ------------------------------------------------------------------- C23
Bands == {"novice", "intermediate", "advanced"}

Level2Plus == { <<"l", "e", "v", "e", "l", "2">>, <<"l", "e", "v", "e", "l", "3">> }

\* C23: after a call of derive_experience_band the result is one of
\* "novice", "intermediate" and "advanced", and it is "novice" for 0-1 years
\* or none/awareness training, "intermediate" for 2-5 years or level1
\* training, and "advanced" for 6+ years or level 2+ training.
C23_BandAsDocumented ==
    band # "" =>
        /\ band \in Bands
        /\ (years = <<"0", "-", "1">>
              \/ training \in { <<"n", "o", "n", "e">>,
                                 <<"a", "w", "a", "r", "e", "n", "e", "s", "s">> })
               => band = "novice"
        /\ (years = <<"2", "-", "5">> \/ training = <<"l", "e", "v", "e", "l", "1">>)
               => band = "intermediate"
        /\ (years = <<"6", "+">> \/ training \in Level2Plus)
               => band = "advanced"

============================================================================
